---- MODULE Spec2Model ----
(***************************************************************************)
(* Row-sharded batch inference with checkpoint/resume, as implemented by   *)
(* daos/infer_equations_llama_mpi.py (llama-server variant).               *)
(*                                                                         *)
(* One worker (world_rank of world_size) processes one batch (a parquet    *)
(* file of total_rows rows).  Its output file and checkpoint file are      *)
(* persistent; every other variable of process_file_row_sharded is lost    *)
(* when the process dies.                                                  *)
(***************************************************************************)
EXTENDS Integers, Sequences, FiniteSets, TLC

(* ------------------------------ bounds -------------------------------- *)
MaxWorld == 3        \* world sizes 1..MaxWorld
MaxRows == 7         \* batch sizes 0..MaxRows
MaxShard == 2        \* only (rank, size, rows) whose shard has <= MaxShard rows
MaxFlushEvery == 2   \* flush thresholds 1..MaxFlushEvery (flush_every = 20 in the source)
MaxRuns == 2          \* invocations of process_file_row_sharded on the batch
MaxOffset == 2        \* numbers 0..MaxOffset found under "row_offset" in a checkpoint text
MaxRanks == 2         \* world sizes 1..MaxRanks of a job looked at as a whole
MaxFiles == 2         \* 0..MaxFiles parquet files in the source directory
MaxFlushes == 1       \* flushes with records per rank and batch
MaxResizeRows == 3    \* batch sizes 0..MaxResizeRows of a job launched again with another world size

(* ------------------------ program constants --------------------------- *)
max_attempts == 60

(* ------------------------- pure functions ----------------------------- *)

\* len(range(start, stop, step)) for step > 0
RangeLen(start, stop, step) ==
    IF start >= stop THEN 0 ELSE (stop - start + step - 1) \div step

PyRange_Descending(start, stop, step) ==
    [k \in 1..RangeLen(start, stop, step) |->
        start + (RangeLen(start, stop, step) - k) * step]

\* list(range(start, stop, step)) for step > 0
PyRange(start, stop, step) ==
    [k \in 1..RangeLen(start, stop, step) |-> start + (k - 1) * step]

AssignedRows_StepBug(rank, size, rows, offset) ==
    PyRange(rank + offset * size, rows, size + 1)

\* my_rows = list(range(world_rank + start_offset * world_size, total_rows, world_size))
AssignedRows(rank, size, rows, offset) ==
    PyRange(rank + offset * size, rows, size)

Range(s) == {s[i] : i \in 1..Len(s)}

(* ------------------------- output validator --------------------------- *)

\* What the model's text can look like to parse_strict_json:
\*   has_object : re.search(r"\{.*\}\s*$") finds an object at the end
\*   json_ok    : json.loads accepts the matched text
\*   schema_ok  : Draft7Validator(PURE_MATH_JSON_SCHEMA).validate accepts it
Contents ==
    { [has_object |-> TRUE,  json_ok |-> TRUE,  schema_ok |-> TRUE],
      [has_object |-> TRUE,  json_ok |-> TRUE,  schema_ok |-> FALSE],
      [has_object |-> TRUE,  json_ok |-> FALSE, schema_ok |-> FALSE],
      [has_object |-> FALSE, json_ok |-> FALSE, schema_ok |-> FALSE] }

\* parse_strict_json: "ok" when an object is returned, else the exception
parse_strict_json(s) ==
    IF ~s.has_object THEN "ValueError"
    ELSE IF ~s.json_ok THEN "JSONDecodeError"
    ELSE IF ~s.schema_ok THEN "ValidationError"
    ELSE "ok"

(* --------------------------- llama-server ----------------------------- *)

\* One answer of requests.post: either the call itself throws (conn_ok =
\* FALSE), or a response with a status code and a body.  Bodies:
\*   "loading"     JSON {"error": {"message": "... Loading model ..."}}
\*   "error_other" JSON error object with another message
\*   "not_json"    resp.json() throws
\*   "chat"        JSON with choices[0].message.content
ConnFailure == [conn_ok |-> FALSE, status |-> 0, body |-> "not_json"]

HttpResponses ==
    [conn_ok : {TRUE}, status : {200, 500, 503},
     body : {"loading", "error_other", "not_json", "chat"}]

Responses == {ConnFailure} \cup HttpResponses

\* msg = data.get("error", {}).get("message", ""), "" when resp.json() throws
ErrorMessage(resp) ==
    IF resp.body = "loading" THEN "Loading model"
    ELSE IF resp.body = "error_other" THEN "other"
    ELSE ""

IsLoadingModel_AnyMessage(resp) == resp.status = 503

\* resp.status_code == 503 and "Loading model" in msg
IsLoadingModel(resp) ==
    resp.status = 503 /\ ErrorMessage(resp) = "Loading model"

IsLastAttempt_OffByOne(attempt) == attempt = max_attempts - 1

\* if attempt == max_attempts: raise
IsLastAttempt(attempt) == attempt = max_attempts

\* How the backend behaves during one call: it answers `pre` on the first
\* `k` attempts and `final` on every later one; `text` is the content of a
\* "chat" body.
TransientRuns == {0, 1, 2, max_attempts - 2, max_attempts - 1, max_attempts, max_attempts + 1}

LoadingResponse == [conn_ok |-> TRUE, status |-> 503, body |-> "loading"]

ValidText == [has_object |-> TRUE, json_ok |-> TRUE, schema_ok |-> TRUE]

Backends ==
    { b \in [k : TransientRuns,
             pre : {ConnFailure, LoadingResponse},
             final : Responses,
             text : Contents] :
        /\ (b.k = 0 => b.pre = ConnFailure)
        /\ (b.text # ValidText => b.final.conn_ok /\ b.final.body = "chat") }

ResponseAt(b, attempt) == IF attempt <= b.k THEN b.pre ELSE b.final

\* The except branch of requests.post, or the 503 "Loading model" branch:
\* the attempt ends in sleep-and-continue unless it is the last one.
IsRetried(b, attempt) ==
    LET resp == ResponseAt(b, attempt)
    IN  (~resp.conn_ok \/ IsLoadingModel(resp)) /\ ~IsLastAttempt(attempt)

\* The attempts `for attempt in range(1, max_attempts + 1)` goes through:
\* every attempt before the first one that is not retried.
AttemptsMade(b) ==
    { a \in 1..max_attempts : \A a2 \in 1..(a - 1) : IsRetried(b, a2) }

\* What the loop body does on its last iteration.
AttemptOutcome(b, attempt) ==
    LET resp == ResponseAt(b, attempt)
    IN  IF ~resp.conn_ok \/ IsLoadingModel(resp)
        THEN IF IsLastAttempt(attempt) THEN "exhausted" ELSE "unreachable"
        ELSE IF resp.status # 200 THEN "http_status"
        ELSE IF resp.body = "not_json" THEN "bad_json"
        ELSE IF resp.body # "chat" THEN "bad_schema"
        ELSE "none"

\* llama_server_infer(prompt): requests is the number of requests.post
\* calls, sleeps the number of time.sleep calls, last the final response.
InferLoop(b) ==
    LET made == AttemptsMade(b)
        n == Cardinality(made)
        err == AttemptOutcome(b, n)
    IN  [outcome |-> IF err = "none" THEN "returned" ELSE "raised",
         error |-> err,
         content |-> b.text,
         requests |-> n,
         sleeps |-> Cardinality({a \in made : IsRetried(b, a)}),
         last |-> ResponseAt(b, n)]

llama_server_infer(b) == InferLoop(b)

\* What the caller of llama_server_infer gets: the returned content, or the
\* exception.
CallerView(res) ==
    [outcome |-> res.outcome, error |-> res.error,
     content |-> IF res.outcome = "returned" THEN res.content ELSE ValidText]

InferReplies == { CallerView(llama_server_infer(b)) : b \in Backends }

(* ----------------------------- records -------------------------------- *)

MakeRecord_DropRaw(row, content) ==
    IF parse_strict_json(content) = "ok"
    THEN [global_row |-> row, llm_raw_output |-> content, structured |-> TRUE]
    ELSE [global_row |-> row, llm_raw_output |-> ValidText, structured |-> FALSE]

\* rec = {..., "llm_raw_output": content, "global_row": global_row_index},
\* extended with the structured fields when parse_strict_json returned
MakeRecord(row, content) ==
    [global_row |-> row, llm_raw_output |-> content,
     structured |-> (parse_strict_json(content) = "ok")]

OnRowError_Record(buf, row) == Append(buf, MakeRecord(row, ValidText))

\* except Exception as e: print(...); continue
OnRowError(buf, row) == buf

NextIndexAfterError_Abort(i, n, err) == IF err = "exhausted" THEN n + 1 ELSE i + 1

\* `continue` in the except branch: the for loop takes the next row
NextIndexAfterError(i, n, err) == i + 1

(* ------------------------------ files --------------------------------- *)

NoFile == [exists |-> FALSE, rows |-> <<>>]

_flush_WritesEmpty(file, records) ==
    IF file.exists
    THEN [exists |-> TRUE, rows |-> file.rows \o records]
    ELSE [exists |-> TRUE, rows |-> records]

\* _flush(out_path, records)
_flush(file, records) ==
    IF records = <<>> THEN file
    ELSE IF file.exists
         THEN [exists |-> TRUE, rows |-> file.rows \o records]
         ELSE [exists |-> TRUE, rows |-> records]

(* The text of a checkpoint file, as json.loads sees it: unparseable, or a
   JSON value of some kind; an object has the key "row_offset" or not, and
   under it a value.  A float n.5 is [type |-> "float", num |-> n], the
   string of the digits of n is [type |-> "digits", num |-> n]. *)
JsonValue(type, num) == [type |-> type, num |-> num]

JsonValues ==
    { JsonValue(t, n) : t \in {"int", "float", "digits"}, n \in 0..MaxOffset }
    \cup { JsonValue("bool", n) : n \in 0..1 }
    \cup { JsonValue(t, 0) : t \in {"word", "null", "list", "infinity"} }

JsonText(kind, has_key, value) == [kind |-> kind, has_key |-> has_key, value |-> value]

CkptTexts ==
    { JsonText(k, FALSE, JsonValue("null", 0)) :
          k \in {"unparseable", "array", "string", "number", "null", "object"} }
    \cup { JsonText("object", TRUE, v) : v \in JsonValues }

py_int_Strict(v) ==
    IF v.type = "int"
    THEN [raised |-> FALSE, value |-> v.num]
    ELSE [raised |-> TRUE, value |-> 0]

\* int(x): an int as it is, a float truncated, a string of digits parsed,
\* a bool as 0 or 1; ValueError, TypeError or OverflowError for the rest
py_int(v) ==
    IF v.type \in {"int", "float", "digits", "bool"}
    THEN [raised |-> FALSE, value |-> v.num]
    ELSE [raised |-> TRUE, value |-> 0]

\* int(json.loads(text).get("row_offset", 0)): json.loads raises on text that
\* is not JSON, .get raises on anything but an object
ParseRowOffset(text) ==
    IF text.kind # "object" THEN [raised |-> TRUE, value |-> 0]
    ELSE IF ~text.has_key THEN py_int(JsonValue("int", 0))
    ELSE py_int(text.value)

\* json.dumps({"row_offset": offset})
json_dumps(offset) == JsonText("object", TRUE, JsonValue("int", offset))

NoCkpt == [exists |-> FALSE, text |-> JsonText("unparseable", FALSE, JsonValue("null", 0))]

\* _write_rank_ckpt(ckpt, offset)
_write_rank_ckpt(offset) == [exists |-> TRUE, text |-> json_dumps(offset)]

\* start_offset as read at the top of process_file_row_sharded: 0 when the
\* file is absent, 0 when the try block raised
ReadCkpt(file) ==
    IF ~file.exists THEN 0
    ELSE IF ParseRowOffset(file.text).raised THEN 0
    ELSE ParseRowOffset(file.text).value

CkptFiles == {NoCkpt} \cup { [exists |-> TRUE, text |-> t] : t \in CkptTexts }

ThresholdCkptValue_PlusOne(cnt, every) == cnt \div every + 1

\* _write_rank_ckpt(ckpt_path, count // flush_every)
ThresholdCkptValue(cnt, every) == cnt \div every

FinalCkptValue_PlusOne(rows) == Len(rows) + 1

\* _write_rank_ckpt(ckpt_path, len(my_rows))
FinalCkptValue(rows) == Len(rows)

(* ------------------------------ state --------------------------------- *)

VARIABLES
    world_size,    \* comm.Get_size()
    world_rank,    \* comm.Get_rank()
    total_rows,    \* len(df) of the batch
    flush_every,   \* the flush threshold
    long_rows,     \* rows whose prompt is longer than max_prompt_chars
    model_text,    \* the shape of the text the model generates
    out_file,      \* the worker's parquet file of the batch
    ckpt_file,     \* the worker's checkpoint file of the batch
    pc,            \* where process_file_row_sharded stands
    start_offset, my_rows, idx, buffer, count,
    reply,         \* what the call of llama_server_infer for this row gave
    backend,       \* a backend behaviour handed to llama_server_infer
    result,        \* what llama_server_infer did with it
    legacy,        \* the llama-legacy script run beside the worker on the same batch
    runs,          \* invocations on this batch so far, this one included
    attempted,     \* rows the for loop reached in earlier invocations
    visited,       \* rows the for loop reached in this invocation
    exhausted,     \* a call of this invocation ran out of attempts
    returned,      \* rows for which inference returned text in this invocation
    prev_size,     \* comm.Get_size() of the invocation before this one
    completed,     \* an earlier invocation ran the batch to its end
    nfiles,        \* len(files) in main
    listing,       \* src_dir.iterdir() as each rank gets it
    rank_pc,       \* where each rank of the job stands in main
    rank_file,     \* the index in files of the batch each rank is on
    entered,       \* the calls of comm.Barrier() each rank has made
    flushes,       \* the flushes with records each rank has made in its batch
    dirs_made,     \* dst_dir and dst_dir/checkpoints exist
    disk           \* the files written under dst_dir, each with its writers

config == <<world_size, world_rank, total_rows, flush_every, long_rows, model_text>>
files == <<out_file, ckpt_file>>
locals == <<start_offset, my_rows, idx, buffer, count>>
call == <<backend, result, legacy>>
history == <<runs, attempted, visited, exhausted, returned, prev_size, completed>>
cluster == <<nfiles, listing, rank_pc, rank_file, entered, flushes, dirs_made, disk>>
vars == <<config, files, pc, locals, reply, call, history, cluster>>

NoBackend == [k |-> 0, pre |-> ConnFailure, final |-> ConnFailure, text |-> ValidText]
NoResult == [outcome |-> "none", error |-> "none", content |-> ValidText,
             requests |-> 0, sleeps |-> 0, last |-> ConnFailure]
NoReply == [outcome |-> "none", error |-> "none", content |-> ValidText]

\* The legacy script before its first invocation on the batch: no file
\* written, seen = the place it has last followed the worker to.
NoLegacy ==
    [pc |-> "start", start_offset |-> 0, my_rows |-> <<>>, idx |-> 1,
     buffer |-> <<>>, count |-> 0, reply |-> NoReply,
     out_file |-> NoFile, ckpt_file |-> NoCkpt, runs |-> 1,
     seen |-> <<"start", 1, 1>>]

Shard == AssignedRows(world_rank, world_size, total_rows, 0)

\* One worker on one batch is looked at: the job around it is left out.
NoCluster ==
    /\ nfiles = 0
    /\ listing = <<>>
    /\ rank_pc = <<>>
    /\ rank_file = <<>>
    /\ entered = <<>>
    /\ flushes = <<>>
    /\ dirs_made = FALSE
    /\ disk = {}

Init ==
    /\ world_size \in 1..MaxWorld
    /\ world_rank \in 0..(world_size - 1)
    /\ total_rows \in 0..MaxRows
    /\ Len(AssignedRows(world_rank, world_size, total_rows, 0)) <= MaxShard
    /\ flush_every \in 1..MaxFlushEvery
    /\ long_rows \in SUBSET Range(AssignedRows(world_rank, world_size, total_rows, 0))
    /\ model_text \in Contents
    /\ out_file = NoFile
    /\ ckpt_file = NoCkpt
    /\ pc = "start"
    /\ start_offset = 0
    /\ my_rows = <<>>
    /\ idx = 1
    /\ buffer = <<>>
    /\ count = 0
    /\ reply = NoReply
    /\ backend = NoBackend
    /\ result = NoResult
    /\ legacy = NoLegacy
    /\ runs = 1
    /\ attempted = {}
    /\ visited = {}
    /\ exhausted = FALSE
    /\ returned = {}
    /\ prev_size = world_size
    /\ completed = FALSE
    /\ NoCluster

(* ----------------------------- actions --------------------------------- *)

Start_ChecksWorldSize ==
    /\ pc = "start"
    /\ start_offset' = IF prev_size = world_size THEN ReadCkpt(ckpt_file) ELSE 0
    /\ my_rows' = AssignedRows(world_rank, world_size, total_rows, start_offset')
    /\ idx' = 1
    /\ buffer' = <<>>
    /\ count' = 0
    /\ pc' = "loop"
    /\ UNCHANGED <<cluster, config, files, reply, call, history>>

\* Lines 244-265: read the checkpoint, compute my_rows, reset buffer and count.
Start ==
    /\ pc = "start"
    /\ start_offset' = ReadCkpt(ckpt_file)
    /\ my_rows' = AssignedRows(world_rank, world_size, total_rows, ReadCkpt(ckpt_file))
    /\ idx' = 1
    /\ buffer' = <<>>
    /\ count' = 0
    /\ pc' = "loop"
    /\ UNCHANGED <<cluster, config, files, reply, call, history>>

SkipLongRow_Counts ==
    /\ pc = "loop"
    /\ idx <= Len(my_rows)
    /\ my_rows[idx] \in long_rows
    /\ visited' = visited \cup {my_rows[idx]}
    /\ idx' = idx + 1
    /\ count' = count + 1
    /\ UNCHANGED <<cluster, config, files, pc, start_offset, my_rows, buffer,
                   reply, call, runs, attempted, exhausted, returned, prev_size,
                   completed>>

\* Lines 266-283: the loop reaches a row whose prompt is too long; continue.
SkipLongRow ==
    /\ pc = "loop"
    /\ idx <= Len(my_rows)
    /\ my_rows[idx] \in long_rows
    /\ visited' = visited \cup {my_rows[idx]}
    /\ idx' = idx + 1
    /\ UNCHANGED <<cluster, config, files, pc, start_offset, my_rows, buffer, count,
                   reply, call, runs, attempted, exhausted, returned, prev_size,
                   completed>>

\* Lines 266-286: the loop reaches a row and calls llama_server_infer.
InferRow ==
    /\ pc = "loop"
    /\ idx <= Len(my_rows)
    /\ my_rows[idx] \notin long_rows
    /\ reply' \in InferReplies
    /\ reply'.outcome = "returned" => reply'.content = model_text
    /\ visited' = visited \cup {my_rows[idx]}
    /\ returned' = IF reply'.outcome = "returned"
                   THEN returned \cup {my_rows[idx]} ELSE returned
    /\ pc' = "handle"
    /\ UNCHANGED <<cluster, config, files, locals, call, runs, attempted, exhausted,
                   prev_size, completed>>

RecordRow_LocalIndex ==
    /\ pc = "handle"
    /\ reply.outcome = "returned"
    /\ buffer' = Append(buffer, MakeRecord(idx - 1, reply.content))
    /\ count' = count + 1
    /\ IF (count + 1) % flush_every = 0
       THEN pc' = "flush" /\ idx' = idx
       ELSE pc' = "loop" /\ idx' = idx + 1
    /\ reply' = NoReply
    /\ UNCHANGED <<cluster, config, files, start_offset, my_rows, call, history>>

\* Lines 287-327: the call returned; build the record, buffer it, count it.
RecordRow ==
    /\ pc = "handle"
    /\ reply.outcome = "returned"
    /\ buffer' = Append(buffer, MakeRecord(my_rows[idx], reply.content))
    /\ count' = count + 1
    /\ IF (count + 1) % flush_every = 0
       THEN pc' = "flush" /\ idx' = idx
       ELSE pc' = "loop" /\ idx' = idx + 1
    /\ reply' = NoReply
    /\ UNCHANGED <<cluster, config, files, start_offset, my_rows, call, history>>

\* Lines 291-293: the call raised; log and continue.
RowError ==
    /\ pc = "handle"
    /\ reply.outcome = "raised"
    /\ buffer' = OnRowError(buffer, my_rows[idx])
    /\ idx' = NextIndexAfterError(idx, Len(my_rows), reply.error)
    /\ exhausted' = (exhausted \/ reply.error = "exhausted")
    /\ pc' = "loop"
    /\ reply' = NoReply
    /\ UNCHANGED <<cluster, config, files, start_offset, my_rows, count, call,
                   runs, attempted, visited, returned, prev_size, completed>>

ThresholdFlush_Overwrite ==
    /\ pc = "flush"
    /\ out_file' = [exists |-> TRUE, rows |-> buffer]
    /\ pc' = "ckpt"
    /\ UNCHANGED <<cluster, config, ckpt_file, locals, reply, call, history>>

\* Line 328: _flush(out_path, buffer) of a threshold flush.
ThresholdFlush ==
    /\ pc = "flush"
    /\ out_file' = _flush(out_file, buffer)
    /\ pc' = "ckpt"
    /\ UNCHANGED <<cluster, config, ckpt_file, locals, reply, call, history>>

ThresholdCkpt_KeepBuffer ==
    /\ pc = "ckpt"
    /\ buffer' = buffer
    /\ ckpt_file' = _write_rank_ckpt(ThresholdCkptValue(count, flush_every))
    /\ idx' = idx + 1
    /\ pc' = "loop"
    /\ UNCHANGED <<cluster, config, out_file, start_offset, my_rows, count, reply, call, history>>

\* Lines 329-332: buffer.clear(), write the checkpoint, next row.
ThresholdCkpt ==
    /\ pc = "ckpt"
    /\ buffer' = <<>>
    /\ ckpt_file' = _write_rank_ckpt(ThresholdCkptValue(count, flush_every))
    /\ idx' = idx + 1
    /\ pc' = "loop"
    /\ UNCHANGED <<cluster, config, out_file, start_offset, my_rows, count, reply, call, history>>

FinalFlush_Dropped ==
    /\ pc = "loop"
    /\ idx > Len(my_rows)
    /\ out_file' = out_file
    /\ pc' = "final_ckpt"
    /\ UNCHANGED <<cluster, config, ckpt_file, locals, reply, call, history>>

\* Line 335: the loop is over; final _flush.
FinalFlush ==
    /\ pc = "loop"
    /\ idx > Len(my_rows)
    /\ out_file' = _flush(out_file, buffer)
    /\ pc' = "final_ckpt"
    /\ UNCHANGED <<cluster, config, ckpt_file, locals, reply, call, history>>

\* Line 336: final checkpoint write; the batch is done.
FinalCkpt ==
    /\ pc = "final_ckpt"
    /\ ckpt_file' = _write_rank_ckpt(FinalCkptValue(my_rows))
    /\ pc' = "done"
    /\ UNCHANGED <<cluster, config, out_file, locals, reply, call, history>>

\* The process starts again on the same batch: only the files survive.
Restart ==
    /\ runs' = runs + 1
    /\ attempted' = attempted \cup visited
    /\ visited' = {}
    /\ exhausted' = FALSE
    /\ returned' = {}
    /\ prev_size' = world_size
    /\ completed' = (completed \/ pc = "done")
    /\ pc' = "start"
    /\ start_offset' = 0
    /\ my_rows' = <<>>
    /\ idx' = 1
    /\ buffer' = <<>>
    /\ count' = 0
    /\ reply' = NoReply
    /\ UNCHANGED <<cluster, config, files, call>>

\* The process dies in the middle of the batch and is started again.
Crash ==
    /\ pc \in {"loop", "handle", "flush", "ckpt", "final_ckpt"}
    /\ runs < MaxRuns
    /\ Restart

\* The job is submitted again after the batch was completed.
Rerun ==
    /\ pc = "done"
    /\ runs < MaxRuns
    /\ Restart

Next ==
    \/ Start
    \/ SkipLongRow
    \/ InferRow
    \/ RecordRow
    \/ RowError
    \/ ThresholdFlush
    \/ ThresholdCkpt
    \/ FinalFlush
    \/ FinalCkpt
    \/ Crash
    \/ Rerun

Spec == Init /\ [][Next]_vars

(* ------------- the job is launched again with another world size -------- *)

\* A worker of rank world_rank stands before a batch without over-long
\* prompts, for which the model answers with valid text.
InitResize ==
    /\ world_size \in 1..MaxWorld
    /\ world_rank \in 0..(world_size - 1)
    /\ total_rows \in 0..MaxResizeRows
    /\ flush_every \in 1..MaxFlushEvery
    /\ long_rows = {}
    /\ model_text = ValidText
    /\ out_file = NoFile
    /\ ckpt_file = NoCkpt
    /\ pc = "start"
    /\ start_offset = 0
    /\ my_rows = <<>>
    /\ idx = 1
    /\ buffer = <<>>
    /\ count = 0
    /\ reply = NoReply
    /\ backend = NoBackend
    /\ result = NoResult
    /\ legacy = NoLegacy
    /\ runs = 1
    /\ attempted = {}
    /\ visited = {}
    /\ exhausted = FALSE
    /\ returned = {}
    /\ prev_size = world_size
    /\ completed = FALSE
    /\ NoCluster

\* The job is stopped, or has ended, and is launched again with another
\* number of ranks; the rank looked at exists in both launches and finds the
\* files it left (their names hold the rank, not the world size).
Resize ==
    /\ pc \in {"loop", "handle", "flush", "ckpt", "final_ckpt", "done"}
    /\ runs < MaxRuns
    /\ world_size' \in (1..MaxWorld) \ {world_size}
    /\ world_rank < world_size'
    /\ prev_size' = world_size
    /\ completed' = (completed \/ pc = "done")
    /\ runs' = runs + 1
    /\ attempted' = attempted \cup visited
    /\ visited' = {}
    /\ exhausted' = FALSE
    /\ returned' = {}
    /\ pc' = "start"
    /\ start_offset' = 0
    /\ my_rows' = <<>>
    /\ idx' = 1
    /\ buffer' = <<>>
    /\ count' = 0
    /\ reply' = NoReply
    /\ UNCHANGED <<cluster, world_rank, total_rows, flush_every, long_rows, model_text,
                   files, call>>

NextResize ==
    \/ Start
    \/ InferRow
    \/ RecordRow
    \/ RowError
    \/ ThresholdFlush
    \/ ThresholdCkpt
    \/ FinalFlush
    \/ FinalCkpt
    \/ Resize

SpecResize == InitResize /\ [][NextResize]_vars

(* ------------------- the job: all ranks, all batches -------------------- *)

Ranks == 0..(world_size - 1)

\* The entries of the source directory: the parquet file whose path is the
\* n-th in ascending order of paths, and a file of another suffix.
ParquetFile(n) == [stem |-> n, suffix |-> ".parquet"]
OtherFile == [stem |-> 0, suffix |-> ".txt"]

\* The orders in which iterdir() can yield the entries of a directory.
Listings(entries) ==
    { s \in [1..Cardinality(entries) -> entries] :
          \A i, j \in 1..Cardinality(entries) : i # j => s[i] # s[j] }

IsParquet(p) == p.suffix = ".parquet"

load_parquets_Unsorted(entries) == SelectSeq(entries, IsParquet)

\* sorted([p for p in src_dir.iterdir() if p.suffix == ".parquet"])
load_parquets(entries) ==
    SortSeq(SelectSeq(entries, IsParquet), LAMBDA p, q : p.stem < q.stem)

\* pq_path.stem of the batch rank w is on
BatchOf(w) == load_parquets(listing[w])[rank_file[w]].stem

out_path_NoRank(f, w) == [dir |-> "dst", stem |-> f, rank |-> 0]

\* out_path = dst_dir / f"{pq_path.stem}__rank{world_rank:04d}.parquet"
out_path(f, w) == [dir |-> "dst", stem |-> f, rank |-> w]

\* ckpt_path = dst_dir / "checkpoints" / f"{pq_path.stem}__rank{world_rank:04d}.ckpt.json"
ckpt_path(f, w) == [dir |-> "checkpoints", stem |-> f, rank |-> w]

\* write_text / to_parquet on a path by a rank
Written(path, w) == [path |-> path, writer |-> w]

BarrierOpen_NoWait(w) == TRUE

\* comm.Barrier() returns on a rank once every rank has made the same call
BarrierOpen(w) == \A v \in Ranks : entered[v] >= entered[w]

StepOnFile_BarrierOnce(w, f) ==
    IF f > nfiles THEN "done"
    ELSE IF f > 1 THEN "rows"
    ELSE IF w = 0 THEN "mkdir" ELSE "barrier"

\* Top of process_file_row_sharded for the f-th file, or the end of main.
StepOnFile(w, f) ==
    IF f > nfiles THEN "done"
    ELSE IF w = 0 THEN "mkdir" ELSE "barrier"

InitMPI ==
    /\ world_size \in 1..MaxRanks
    /\ world_rank = 0
    /\ total_rows = 0
    /\ flush_every = 1
    /\ long_rows = {}
    /\ model_text = ValidText
    /\ out_file = NoFile
    /\ ckpt_file = NoCkpt
    /\ pc = "start"
    /\ start_offset = 0
    /\ my_rows = <<>>
    /\ idx = 1
    /\ buffer = <<>>
    /\ count = 0
    /\ reply = NoReply
    /\ backend = NoBackend
    /\ result = NoResult
    /\ legacy = NoLegacy
    /\ runs = 1
    /\ attempted = {}
    /\ visited = {}
    /\ exhausted = FALSE
    /\ returned = {}
    /\ prev_size = world_size
    /\ completed = FALSE
    /\ nfiles \in 0..MaxFiles
    /\ listing = [w \in Ranks |-> [i \in 1..nfiles |-> ParquetFile(i)]]
    /\ rank_file = [w \in Ranks |-> 1]
    /\ rank_pc = [w \in Ranks |-> StepOnFile(w, 1)]
    /\ entered = [w \in Ranks |-> 0]
    /\ flushes = [w \in Ranks |-> 0]
    /\ dirs_made = FALSE
    /\ disk = {}

worker == <<config, files, pc, locals, reply, call, history>>

\* Lines 239-241: rank 0 creates dst_dir and dst_dir/checkpoints.
MakeDirs(w) ==
    /\ rank_pc[w] = "mkdir"
    /\ dirs_made' = TRUE
    /\ rank_pc' = [rank_pc EXCEPT ![w] = "barrier"]
    /\ UNCHANGED <<worker, nfiles, listing, rank_file, entered, flushes, disk>>

\* Line 242: the rank calls comm.Barrier().
EnterBarrier(w) ==
    /\ rank_pc[w] = "barrier"
    /\ entered' = [entered EXCEPT ![w] = @ + 1]
    /\ rank_pc' = [rank_pc EXCEPT ![w] = "waiting"]
    /\ UNCHANGED <<worker, nfiles, listing, rank_file, flushes, dirs_made, disk>>

\* Line 242: comm.Barrier() returns.
LeaveBarrier(w) ==
    /\ rank_pc[w] = "waiting"
    /\ BarrierOpen(w)
    /\ rank_pc' = [rank_pc EXCEPT ![w] = "rows"]
    /\ UNCHANGED <<worker, nfiles, listing, rank_file, entered, flushes, dirs_made, disk>>

\* Lines 328 and 335: _flush with records in the buffer writes the rank's
\* parquet file of the batch.
WriteOutput(w) ==
    /\ rank_pc[w] = "rows"
    /\ flushes[w] < MaxFlushes
    /\ flushes' = [flushes EXCEPT ![w] = @ + 1]
    /\ disk' = disk \cup {Written(out_path(BatchOf(w), w), w)}
    /\ rank_pc' = [rank_pc EXCEPT ![w] = "ckpt"]
    /\ UNCHANGED <<worker, nfiles, listing, rank_file, entered, dirs_made>>

\* Line 331: _write_rank_ckpt after a threshold flush.
WriteCheckpoint(w) ==
    /\ rank_pc[w] = "ckpt"
    /\ disk' = disk \cup {Written(ckpt_path(BatchOf(w), w), w)}
    /\ rank_pc' = [rank_pc EXCEPT ![w] = "rows"]
    /\ UNCHANGED <<worker, nfiles, listing, rank_file, entered, flushes, dirs_made>>

FinishBatch_Collective(w) ==
    /\ rank_pc[w] = "rows"
    /\ \A v \in Ranks : rank_pc[v] # "halted"
    /\ disk' = disk \cup {Written(ckpt_path(BatchOf(w), w), w)}
    /\ rank_file' = [rank_file EXCEPT ![w] = @ + 1]
    /\ flushes' = [flushes EXCEPT ![w] = 0]
    /\ rank_pc' = [rank_pc EXCEPT ![w] = StepOnFile(w, rank_file[w] + 1)]
    /\ UNCHANGED <<worker, nfiles, listing, entered, dirs_made>>

\* Lines 336 and 388: the last _write_rank_ckpt of the batch; the for loop of
\* main takes the next file.
FinishBatch(w) ==
    /\ rank_pc[w] = "rows"
    /\ disk' = disk \cup {Written(ckpt_path(BatchOf(w), w), w)}
    /\ rank_file' = [rank_file EXCEPT ![w] = @ + 1]
    /\ flushes' = [flushes EXCEPT ![w] = 0]
    /\ rank_pc' = [rank_pc EXCEPT ![w] = StepOnFile(w, rank_file[w] + 1)]
    /\ UNCHANGED <<worker, nfiles, listing, entered, dirs_made>>

\* The rank's process dies, or stalls for good, wherever it stands.
Halt(w) ==
    /\ rank_pc[w] \notin {"done", "halted"}
    /\ rank_pc' = [rank_pc EXCEPT ![w] = "halted"]
    /\ UNCHANGED <<worker, nfiles, listing, rank_file, entered, flushes, dirs_made, disk>>

\* What rank w does by itself.
RankStep(w) ==
    \/ MakeDirs(w)
    \/ EnterBarrier(w)
    \/ LeaveBarrier(w)
    \/ WriteOutput(w)
    \/ WriteCheckpoint(w)
    \/ FinishBatch(w)

NextMPI == \E w \in Ranks : RankStep(w) \/ Halt(w)

SpecMPI == InitMPI /\ [][NextMPI]_vars

(* -------------- every rank lists the source directory itself ------------ *)

\* The source directory holds up to MaxFiles entries: nfiles parquet files
\* and perhaps a file of another suffix; every rank gets them in an order of
\* its own.
InitOrder ==
    /\ world_size \in 1..MaxRanks
    /\ world_rank = 0
    /\ total_rows = 0
    /\ flush_every = 1
    /\ long_rows = {}
    /\ model_text = ValidText
    /\ out_file = NoFile
    /\ ckpt_file = NoCkpt
    /\ pc = "start"
    /\ start_offset = 0
    /\ my_rows = <<>>
    /\ idx = 1
    /\ buffer = <<>>
    /\ count = 0
    /\ reply = NoReply
    /\ backend = NoBackend
    /\ result = NoResult
    /\ legacy = NoLegacy
    /\ runs = 1
    /\ attempted = {}
    /\ visited = {}
    /\ exhausted = FALSE
    /\ returned = {}
    /\ prev_size = world_size
    /\ completed = FALSE
    /\ nfiles \in 0..MaxFiles
    /\ \E others \in SUBSET {OtherFile} :
           /\ nfiles + Cardinality(others) <= MaxFiles
           /\ listing \in [Ranks -> Listings({ParquetFile(n) : n \in 1..nfiles} \cup others)]
    /\ rank_file = [w \in Ranks |-> 1]
    /\ rank_pc = [w \in Ranks |-> StepOnFile(w, 1)]
    /\ entered = [w \in Ranks |-> 0]
    /\ flushes = [w \in Ranks |-> 0]
    /\ dirs_made = FALSE
    /\ disk = {}

\* The ranks run to the end, each batch closed by its last checkpoint write.
NextOrder ==
    \E w \in Ranks :
        \/ MakeDirs(w)
        \/ EnterBarrier(w)
        \/ LeaveBarrier(w)
        \/ FinishBatch(w)

SpecOrder == InitOrder /\ [][NextOrder]_vars

\* Every rank that is running keeps running: the scheduler starves no
\* process.  Nothing makes a rank halt, and nothing brings it back.
SpecMPIFair ==
    SpecMPI /\ \A w \in 0..(MaxRanks - 1) : WF_vars(w \in Ranks /\ RankStep(w))

(* ---------------- llama_server_infer on its own ------------------------ *)

\* llama_server_infer is called against the backend.
CallInfer ==
    /\ result.outcome = "none"
    /\ result' = llama_server_infer(backend)
    /\ UNCHANGED <<cluster, config, files, pc, locals, reply, backend, legacy, history>>

\* A backend of any behaviour; the worker itself stands before an empty batch.
InitInfer ==
    /\ world_size = 1
    /\ world_rank = 0
    /\ total_rows = 0
    /\ flush_every = 1
    /\ long_rows = {}
    /\ model_text = ValidText
    /\ out_file = NoFile
    /\ ckpt_file = NoCkpt
    /\ pc = "start"
    /\ start_offset = 0
    /\ my_rows = <<>>
    /\ idx = 1
    /\ buffer = <<>>
    /\ count = 0
    /\ reply = NoReply
    /\ backend \in Backends
    /\ result = NoResult
    /\ legacy = NoLegacy
    /\ runs = 1
    /\ attempted = {}
    /\ visited = {}
    /\ exhausted = FALSE
    /\ returned = {}
    /\ prev_size = world_size
    /\ completed = FALSE
    /\ NoCluster

SpecInfer == InitInfer /\ [][CallInfer]_vars

(* ------------- the checkpoint read on any checkpoint file --------------- *)

\* A worker stands before a batch whose checkpoint file holds any text: one
\* written by this program or not.
InitCkpt ==
    /\ world_size \in 1..MaxWorld
    /\ world_rank \in 0..(world_size - 1)
    /\ total_rows \in 0..MaxRows
    /\ Len(AssignedRows(world_rank, world_size, total_rows, 0)) <= MaxShard
    /\ flush_every = 1
    /\ long_rows = {}
    /\ model_text = ValidText
    /\ out_file = NoFile
    /\ ckpt_file \in CkptFiles
    /\ pc = "start"
    /\ start_offset = 0
    /\ my_rows = <<>>
    /\ idx = 1
    /\ buffer = <<>>
    /\ count = 0
    /\ reply = NoReply
    /\ backend = NoBackend
    /\ result = NoResult
    /\ legacy = NoLegacy
    /\ runs = 1
    /\ attempted = {}
    /\ visited = {}
    /\ exhausted = FALSE
    /\ returned = {}
    /\ prev_size = world_size
    /\ completed = FALSE
    /\ NoCluster

SpecCkpt == InitCkpt /\ [][Start]_vars

(* ---------- the llama-legacy script beside the HTTP worker -------------- *)

(* The legacy script, src/daos/llama-legacy/infer_equations_llama_mpi.py, is
   run on the batch of the worker with the worker's coordinates and flush
   threshold (its own literal is flush_every = 200), its files starting as
   the worker's do.  The worker takes a step; the legacy script then takes
   the step its own code takes at the place where it stands, llama-cli
   giving the row the outcome llama-server gave it, and a crash or a rerun
   of the worker stopping and restarting the legacy script as well. *)

\* What llama-cli can do on one call: exit with 0 or not, its stdout.
Processes == [exit_ok : BOOLEAN, stdout : Contents]

\* llama_cpp_infer: out of check_output, or RuntimeError on CalledProcessError
llama_cpp_infer(p) ==
    IF p.exit_ok
    THEN [outcome |-> "returned", error |-> "none", content |-> p.stdout]
    ELSE [outcome |-> "raised", error |-> "RuntimeError", content |-> ValidText]

\* The two calls went the same way: the same text, or an exception each.
SameOutcome(r1, r2) ==
    /\ r1.outcome = r2.outcome
    /\ r1.outcome = "returned" => r1.content = r2.content

\* parse_strict_json of the legacy script
legacy_parse_strict_json(s) ==
    IF ~s.has_object THEN "ValueError"
    ELSE IF ~s.json_ok THEN "JSONDecodeError"
    ELSE IF ~s.schema_ok THEN "ValidationError"
    ELSE "ok"

\* rec = {..., "llm_raw_output": raw_output, "global_row": global_row_index},
\* extended with the structured fields when parse_strict_json returned
legacy_MakeRecord(row, raw_output) ==
    [global_row |-> row, llm_raw_output |-> raw_output,
     structured |-> (legacy_parse_strict_json(raw_output) = "ok")]

\* _flush(out_path, records) of the legacy script
legacy_flush(file, records) ==
    IF records = <<>> THEN file
    ELSE IF file.exists
         THEN [exists |-> TRUE, rows |-> file.rows \o records]
         ELSE [exists |-> TRUE, rows |-> records]

\* _write_rank_ckpt(ckpt, offset) of the legacy script
legacy_write_rank_ckpt(offset) == [exists |-> TRUE, text |-> json_dumps(offset)]

\* start_offset as the legacy script reads it: 0 when the file is absent,
\* 0 when the try block raised
legacy_ReadCkpt(file) ==
    IF ~file.exists THEN 0
    ELSE IF ParseRowOffset(file.text).raised THEN 0
    ELSE ParseRowOffset(file.text).value

\* my_rows = list(range(world_rank + start_offset * world_size, total_rows, world_size))
legacy_AssignedRows(rank, size, rows, offset) ==
    PyRange(rank + offset * size, rows, size)

\* The legacy script has taken every step the worker has taken.
InSync == legacy.seen = <<pc, idx, runs>>

\* The legacy script in state l, having followed the worker to where it is.
Followed(l) == [l EXCEPT !.seen = <<pc, idx, runs>>]

\* The legacy script is behind the worker, in the same invocation.
Behind == ~InSync /\ legacy.runs = runs

twin == <<config, files, pc, locals, reply, backend, result, history, cluster>>

\* Legacy lines 120-137: read the checkpoint, compute my_rows, reset buffer
\* and count.
legacy_Start ==
    /\ Behind
    /\ legacy.pc = "start"
    /\ legacy' = Followed(
         [legacy EXCEPT
            !.start_offset = legacy_ReadCkpt(legacy.ckpt_file),
            !.my_rows = legacy_AssignedRows(world_rank, world_size, total_rows,
                                            legacy_ReadCkpt(legacy.ckpt_file)),
            !.idx = 1,
            !.buffer = <<>>,
            !.count = 0,
            !.pc = "loop"])
    /\ UNCHANGED twin

\* Legacy lines 138-149: the loop reaches a row and calls llama_cpp_infer;
\* no prompt is too long for the legacy script.
legacy_InferRow ==
    /\ Behind
    /\ legacy.pc = "loop"
    /\ legacy.idx <= Len(legacy.my_rows)
    /\ \E p \in Processes :
         /\ SameOutcome(llama_cpp_infer(p), reply)
         /\ legacy' = Followed([legacy EXCEPT !.reply = llama_cpp_infer(p),
                                              !.pc = "handle"])
    /\ UNCHANGED twin

\* Legacy lines 150-182: the call returned; build the record, buffer it,
\* count it.
legacy_RecordRow ==
    /\ Behind
    /\ legacy.pc = "handle"
    /\ legacy.reply.outcome = "returned"
    /\ legacy' = Followed(
         [legacy EXCEPT
            !.buffer = Append(legacy.buffer,
                              legacy_MakeRecord(legacy.my_rows[legacy.idx],
                                                legacy.reply.content)),
            !.count = legacy.count + 1,
            !.pc = IF (legacy.count + 1) % flush_every = 0 THEN "flush" ELSE "loop",
            !.idx = IF (legacy.count + 1) % flush_every = 0
                    THEN legacy.idx ELSE legacy.idx + 1,
            !.reply = NoReply])
    /\ UNCHANGED twin

\* Legacy lines 154-156: the call raised; log and continue.
legacy_RowError ==
    /\ Behind
    /\ legacy.pc = "handle"
    /\ legacy.reply.outcome = "raised"
    /\ legacy' = Followed([legacy EXCEPT !.idx = legacy.idx + 1,
                                         !.pc = "loop",
                                         !.reply = NoReply])
    /\ UNCHANGED twin

\* Legacy line 183: _flush(out_path, buffer) of a threshold flush.
legacy_ThresholdFlush ==
    /\ Behind
    /\ legacy.pc = "flush"
    /\ legacy' = Followed(
         [legacy EXCEPT !.out_file = legacy_flush(legacy.out_file, legacy.buffer),
                        !.pc = "ckpt"])
    /\ UNCHANGED twin

legacy_ThresholdCkpt_Rows ==
    /\ Behind
    /\ legacy.pc = "ckpt"
    /\ legacy' = Followed(
         [legacy EXCEPT
            !.buffer = <<>>,
            !.ckpt_file = legacy_write_rank_ckpt(legacy.count),
            !.idx = legacy.idx + 1,
            !.pc = "loop"])
    /\ UNCHANGED twin

\* Legacy lines 184-186: buffer.clear(), write the checkpoint, next row.
legacy_ThresholdCkpt ==
    /\ Behind
    /\ legacy.pc = "ckpt"
    /\ legacy' = Followed(
         [legacy EXCEPT
            !.buffer = <<>>,
            !.ckpt_file = legacy_write_rank_ckpt(legacy.count \div flush_every),
            !.idx = legacy.idx + 1,
            !.pc = "loop"])
    /\ UNCHANGED twin

\* Legacy line 189: the loop is over; final _flush.
legacy_FinalFlush ==
    /\ Behind
    /\ legacy.pc = "loop"
    /\ legacy.idx > Len(legacy.my_rows)
    /\ legacy' = Followed(
         [legacy EXCEPT !.out_file = legacy_flush(legacy.out_file, legacy.buffer),
                        !.pc = "final_ckpt"])
    /\ UNCHANGED twin

\* Legacy line 190: final checkpoint write; the batch is done.
legacy_FinalCkpt ==
    /\ Behind
    /\ legacy.pc = "final_ckpt"
    /\ legacy' = Followed(
         [legacy EXCEPT
            !.ckpt_file = legacy_write_rank_ckpt(Len(legacy.my_rows)),
            !.pc = "done"])
    /\ UNCHANGED twin

\* The worker was stopped and started again: so is the legacy script, of
\* which only the files survive.
legacy_Restart ==
    /\ ~InSync
    /\ legacy.runs < runs
    /\ legacy' = Followed(
         [legacy EXCEPT !.runs = runs, !.pc = "start", !.start_offset = 0,
                        !.my_rows = <<>>, !.idx = 1, !.buffer = <<>>,
                        !.count = 0, !.reply = NoReply])
    /\ UNCHANGED twin

\* The step of the legacy script at the place where it stands.
legacy_Next ==
    \/ legacy_Start
    \/ legacy_InferRow
    \/ legacy_RecordRow
    \/ legacy_RowError
    \/ legacy_ThresholdFlush
    \/ legacy_ThresholdCkpt
    \/ legacy_FinalFlush
    \/ legacy_FinalCkpt
    \/ legacy_Restart

\* The worker takes its next step once the legacy script has caught up.
Lead_Start == InSync /\ Start
Lead_InferRow == InSync /\ InferRow
Lead_RecordRow == InSync /\ RecordRow
Lead_RowError == InSync /\ RowError
Lead_ThresholdFlush == InSync /\ ThresholdFlush
Lead_ThresholdCkpt == InSync /\ ThresholdCkpt
Lead_FinalFlush == InSync /\ FinalFlush
Lead_FinalCkpt == InSync /\ FinalCkpt
Lead_Crash == InSync /\ Crash
Lead_Rerun == InSync /\ Rerun

\* No prompt of the batch is longer than max_prompt_chars; the model's text
\* is one parse_strict_json returns an object for, or one it finds none in.
InitTwin ==
    /\ Init
    /\ long_rows = {}
    /\ model_text.has_object = model_text.schema_ok

NextTwin ==
    \/ Lead_Start
    \/ Lead_InferRow
    \/ Lead_RecordRow
    \/ Lead_RowError
    \/ Lead_ThresholdFlush
    \/ Lead_ThresholdCkpt
    \/ Lead_FinalFlush
    \/ Lead_FinalCkpt
    \/ Lead_Crash
    \/ Lead_Rerun
    \/ legacy_Start
    \/ legacy_InferRow
    \/ legacy_RecordRow
    \/ legacy_RowError
    \/ legacy_ThresholdFlush
    \/ legacy_ThresholdCkpt
    \/ legacy_FinalFlush
    \/ legacy_FinalCkpt
    \/ legacy_Restart

SpecTwin == InitTwin /\ [][NextTwin]_vars

(* ------------------------------ claims --------------------------------- *)

RowsOf(recs) == [i \in 1..Len(recs) |-> recs[i].global_row]

NoRepeats(seq) == \A i, j \in 1..Len(seq) : i # j => seq[i] # seq[j]

\* C1: when the worker computes its row sequence with resume offset 0, the
\* row sequences of the worker indices 0..W-1 are pairwise disjoint and
\* their union is {0..N-1}: every row index is in exactly one sequence,
\* exactly once, and the worker's own sequence holds exactly the rows i with
\* i mod W = world_rank.
C1_Coverage ==
    (pc = "loop" /\ idx = 1 /\ start_offset = 0) =>
        LET rows == [g \in 0..(world_size - 1) |->
                        AssignedRows(g, world_size, total_rows, 0)]
        IN  /\ \A i \in 0..(total_rows - 1) :
                  \E g \in 0..(world_size - 1) :
                      /\ i \in Range(rows[g])
                      /\ \A h \in 0..(world_size - 1) :
                            h # g => i \notin Range(rows[h])
            /\ \A g \in 0..(world_size - 1) :
                  /\ Range(rows[g]) \subseteq 0..(total_rows - 1)
                  /\ NoRepeats(rows[g])
            /\ my_rows = rows[world_rank]
            /\ Range(my_rows) =
                  { i \in 0..(total_rows - 1) : i % world_size = world_rank }

C1_Witness ==
    /\ pc = "loop"
    /\ idx = 1
    /\ start_offset = 0
    /\ world_size = 3
    /\ total_rows = 7
    /\ my_rows = <<1, 4>>

\* C2: after any sequence of crashes and restarts no batch row index occurs
\* twice in the worker's output file.
C2_NoDuplicateRows == NoRepeats(RowsOf(out_file.rows))

\* C3: every row of the worker's shard that the stored checkpoint skips (the
\* first row_offset rows of the shard) was reached by the worker's loop, in
\* this invocation or an earlier one; and every row the current invocation
\* skipped was reached in an earlier invocation.
C3_SkippedWereAttempted ==
    LET shard == Shard
        SkippedBy(offset) == { shard[k] : k \in 1..Len(shard) } \
                             Range(AssignedRows(world_rank, world_size,
                                                total_rows, offset))
    IN  /\ SkippedBy(ReadCkpt(ckpt_file)) \subseteq (attempted \cup visited)
        /\ pc # "start" => SkippedBy(start_offset) \subseteq attempted

C3_Witness ==
    /\ pc = "loop"
    /\ runs > 1
    /\ start_offset > 0
    /\ Len(my_rows) > 0
    /\ Len(my_rows) < Len(Shard)

\* C4: when an invocation has processed the batch to completion, the
\* checkpoint it leaves behind yields an empty assigned-row sequence.
C4_DoneLeavesNoWork ==
    pc = "done" =>
        AssignedRows(world_rank, world_size, total_rows, ReadCkpt(ckpt_file)) = <<>>

\* C5: after k threshold flushes of a first invocation, with the first k*T
\* rows of the shard in the output file, the sequence resumed from the
\* checkpoint of the k-th flush is the shard without those first k*T rows.
C5_ResumeSkipsFlushCycles ==
    ( /\ pc = "loop"
      /\ start_offset = 0
      /\ count > 0
      /\ count % flush_every = 0
      /\ buffer = <<>>
      /\ ckpt_file.exists
      /\ RowsOf(out_file.rows) = SubSeq(Shard, 1, count) )
    => AssignedRows(world_rank, world_size, total_rows, ReadCkpt(ckpt_file))
           = SubSeq(Shard, count + 1, Len(Shard))

\* A transient failure as the claims define it: the request throws, or the
\* answer is HTTP 503 with a message containing "Loading model".
TransientFailure(resp) ==
    ~resp.conn_ok \/ (resp.status = 503 /\ resp.body = "loading")

\* How many attempts in a row, from the first, the backend fails transiently
\* (counted up to 61).
LeadingTransients(b) ==
    Cardinality({ a \in 1..61 :
        \A a2 \in 1..a : TransientFailure(ResponseAt(b, a2)) })

\* C6: k < 60 transient failures followed by HTTP 200 with a chat completion
\* make the call return the content after exactly k sleeps and k + 1
\* requests; 60 or more transient failures make it raise after exactly 60
\* requests; there is never a 61st request.
C6_RetryBound ==
    result.outcome # "none" =>
        LET k == LeadingTransients(backend)
            next == ResponseAt(backend, k + 1)
        IN  /\ result.requests <= 60
            /\ (k < 60 /\ next.status = 200 /\ next.body = "chat") =>
                  /\ result.outcome = "returned"
                  /\ result.content = backend.text
                  /\ result.sleeps = k
                  /\ result.requests = k + 1
            /\ k >= 60 =>
                  /\ result.outcome = "raised"
                  /\ result.requests = 60

C6_Witness ==
    /\ result.outcome = "returned"
    /\ result.sleeps = 59
    /\ result.requests = 60

\* C7: an answer that is neither HTTP 200 nor a transient failure makes the
\* call raise on that very attempt: no request follows it and no sleep is
\* made for it.
C7_NoRetryOfFatal ==
    result.outcome # "none" =>
        LET k == LeadingTransients(backend)
            next == ResponseAt(backend, k + 1)
        IN  (k < 60 /\ next.conn_ok /\ next.status # 200) =>
               /\ result.outcome = "raised"
               /\ result.error = "http_status"
               /\ result.requests = k + 1
               /\ result.sleeps = k
               /\ result.last = next

C7_Witness ==
    /\ result.outcome = "raised"
    /\ result.last.status = 503
    /\ result.last.body \in {"error_other", "not_json"}
    /\ result.requests = 3
    /\ result.sleeps = 2

\* C8: when the call returned text, exactly one record is buffered for the
\* row, holding the raw text; it has structured fields exactly when the text
\* ends in a schema-valid JSON object; and the loop goes on (to the next row,
\* or to the threshold flush and then the next row).
C8_ValidationNeverFatal ==
    [][ /\ (pc = "handle" /\ reply.outcome = "returned" /\ runs' = runs) =>
            /\ buffer' = Append(buffer,
                   [global_row |-> my_rows[idx],
                    llm_raw_output |-> reply.content,
                    structured |-> ( /\ reply.content.has_object
                                     /\ reply.content.json_ok
                                     /\ reply.content.schema_ok )])
            /\ \/ pc' = "loop" /\ idx' = idx + 1
               \/ pc' = "flush" /\ idx' = idx
        /\ (pc \in {"flush", "ckpt"} /\ runs' = runs) =>
            \/ pc' = "ckpt" /\ idx' = idx
            \/ pc' = "loop" /\ idx' = idx + 1 ]_vars

C8_Witness ==
    /\ pc = "loop"
    /\ idx > 1
    /\ idx <= Len(my_rows)
    /\ buffer # <<>>
    /\ ~buffer[Len(buffer)].structured
    /\ buffer[Len(buffer)].global_row = my_rows[idx - 1]
    /\ buffer[Len(buffer)].llm_raw_output = model_text

\* C9: an inference error other than retry exhaustion leaves the buffer, the
\* record count, the output file and the checkpoint as they were before the
\* row, and the loop goes on with the next row.
C9_RowErrorContained ==
    [][ /\ (pc = "loop" /\ pc' = "handle") =>
            /\ buffer' = buffer /\ count' = count
            /\ out_file' = out_file /\ ckpt_file' = ckpt_file
        /\ ( /\ pc = "handle" /\ reply.outcome = "raised"
             /\ reply.error # "exhausted" /\ runs' = runs ) =>
            /\ buffer' = buffer /\ count' = count
            /\ out_file' = out_file /\ ckpt_file' = ckpt_file
            /\ pc' = "loop" /\ idx' = idx + 1 ]_vars

C9_Witness ==
    /\ pc = "loop"
    /\ idx > 1
    /\ idx <= Len(my_rows)
    /\ count = 0
    /\ my_rows[idx - 1] \in visited
    /\ my_rows[idx - 1] \notin long_rows
    /\ ~exhausted

\* C10 as stated: once a call of this invocation has run out of attempts,
\* the loop reaches no further row of the batch.
C10_ExhaustionAbortsBatch ==
    [][ (exhausted /\ runs' = runs) => visited' = visited ]_vars

\* C10 as amended: retry exhaustion is handled like every other inference
\* error: nothing is buffered or written for the row and the loop goes on
\* with the next row.
C10_ExhaustionContinues ==
    [][ ( /\ pc = "handle" /\ reply.outcome = "raised"
          /\ reply.error = "exhausted" /\ runs' = runs ) =>
            /\ buffer' = buffer /\ count' = count
            /\ out_file' = out_file /\ ckpt_file' = ckpt_file
            /\ pc' = "loop" /\ idx' = idx + 1 ]_vars

C10_Witness ==
    /\ exhausted
    /\ pc = "handle"
    /\ idx > 1
    /\ my_rows[idx] \in visited

(* C11: a flush is all-or-nothing: no step, and so no state a crash can
   leave behind, has the flushed records in the OutputFile while the
   checkpoint file is still the one from before the flush; every step that
   rewrites the OutputFile writes the checkpoint as well. *)
C11_FlushAllOrNothing ==
    [][out_file' # out_file => ckpt_file' # ckpt_file]_vars

\* The end-of-batch flush (lines 335-336) finds the buffer empty.
EmptyFinalFlush ==
    /\ buffer = <<>>
    /\ \/ pc = "loop" /\ idx > Len(my_rows)
       \/ pc = "final_ckpt"
    /\ runs' = runs

(* C12, as stated: flushing an empty buffer at the end of the batch is a
   no-op: neither step of it creates or rewrites the OutputFile, and neither
   creates or changes the checkpoint file. *)
C12_EmptyFlushNoOp ==
    [][EmptyFinalFlush => (out_file' = out_file /\ ckpt_file' = ckpt_file)]_vars

(* C12, amended: with an empty buffer the end-of-batch flush leaves the
   OutputFile as it was (absent stays absent), but the checkpoint write
   that follows it is unconditional: it leaves a checkpoint file holding
   the number of rows assigned to this invocation. *)
C12_EmptyFlushWritesCkptOnly ==
    [][EmptyFinalFlush =>
          /\ out_file' = out_file
          /\ pc = "loop" => ckpt_file' = ckpt_file
          /\ pc = "final_ckpt" =>
                 (ckpt_file'.exists /\ ReadCkpt(ckpt_file') = Len(my_rows))]_vars

\* The record count was an exact multiple of the threshold, the end-of-batch
\* flush had nothing to write, and the checkpoint changed all the same.
C12_Witness ==
    /\ pc = "done"
    /\ buffer = <<>>
    /\ count > 0
    /\ count % flush_every = 0
    /\ out_file.exists
    /\ ReadCkpt(ckpt_file) # count \div flush_every

(* C13: the persisted progress offset of the (batch, worker) pair never
   decreases: every write of the checkpoint file, in the first run and in
   every run after a restart, stores a value at least as large as the value
   persisted immediately before it. *)
C13_CheckpointMonotone ==
    [][ReadCkpt(ckpt_file') >= ReadCkpt(ckpt_file)]_vars

(* C14: the checkpoint counts flush cycles: every checkpoint write that
   follows a flush which persisted records (a threshold flush, or an
   end-of-batch flush of a non-empty buffer) stores exactly one more than
   the value persisted before it, so that the stored value is the number of
   flush cycles the worker has completed for the batch. *)
C14_CheckpointCountsFlushes ==
    [][(pc \in {"ckpt", "final_ckpt"} /\ buffer # <<>> /\ runs' = runs)
          => ReadCkpt(ckpt_file') = ReadCkpt(ckpt_file) + 1]_vars

\* The checkpoint file is one the claim calls corrupt: absent, unparseable,
\* not a JSON object, or an object whose "row_offset" is not an integer.
CorruptCkpt(file) ==
    \/ ~file.exists
    \/ file.text.kind # "object"
    \/ file.text.has_key /\ file.text.value.type # "int"

\* The resume offset is 0 and processing starts from the worker's first row.
StartsFromFirstRow ==
    /\ start_offset = 0
    /\ my_rows = AssignedRows(world_rank, world_size, total_rows, 0)
    /\ my_rows # <<>> => my_rows[1] = world_rank

(* C15, as stated: the checkpoint read never fails, and whenever the
   checkpoint file is absent, unparseable, not a JSON object, or holds a
   non-integer offset, the resume offset is 0 and processing starts from the
   worker's first row. *)
C15_CorruptReadsZero ==
    pc = "loop" => (CorruptCkpt(ckpt_file) => StartsFromFirstRow)

(* C15, amended: the checkpoint read never fails.  The resume offset is 0,
   and processing starts from the worker's first row, when the file is
   absent, unparseable, not a JSON object, has no "row_offset", or has one
   that int() rejects (a string that is not a number, null, a list, an
   infinite float).  A "row_offset" that int() accepts is used as converted:
   a float truncated, a string of digits parsed, a boolean as 0 or 1. *)
C15_ReadNeverFails ==
    pc = "loop" =>
        LET t == ckpt_file.text
            rejected == \/ ~ckpt_file.exists
                        \/ t.kind # "object"
                        \/ ~t.has_key
                        \/ t.value.type \in {"word", "null", "list", "infinity"}
        IN  /\ rejected => StartsFromFirstRow
            /\ ~rejected => start_offset = t.value.num
            /\ my_rows = AssignedRows(world_rank, world_size, total_rows, start_offset)

\* The worker has read a checkpoint whose offset is the float 1.5, resumes
\* from offset 1 and so does not start from its first row.
C15_Witness ==
    /\ pc = "loop"
    /\ ckpt_file.exists
    /\ ckpt_file.text = JsonText("object", TRUE, JsonValue("float", 1))
    /\ start_offset = 1
    /\ world_size = 2 /\ world_rank = 1 /\ total_rows = 4
    /\ my_rows = <<3>>

(* C16, as stated: over a whole run each worker takes part in exactly one
   collective barrier, at startup before its first batch: it never makes a
   second call, it has made exactly one when it is done, and it waits on the
   other workers only while on its first batch. *)
C16_SingleStartupBarrier ==
    \A w \in Ranks :
        /\ entered[w] <= 1
        /\ rank_pc[w] = "done" => entered[w] = 1
        /\ rank_pc[w] = "waiting" => rank_file[w] = 1

(* C16, amended: each worker takes part in one collective barrier per
   batch, at the top of the batch before it reads its checkpoint: a worker
   has made as many barrier calls as batches it has begun to process, one per
   listed file when it is done, and none when no file is listed. *)
C16_BarrierPerBatch ==
    \A w \in Ranks :
        /\ rank_pc[w] \in {"mkdir", "barrier"} => entered[w] = rank_file[w] - 1
        /\ rank_pc[w] \in {"waiting", "rows", "ckpt"} => entered[w] = rank_file[w]
        /\ rank_pc[w] = "done" => entered[w] = nfiles
        /\ rank_pc[w] = "halted" => entered[w] \in {rank_file[w] - 1, rank_file[w]}

\* A job of two ranks over two files has ended, and each rank has made two
\* barrier calls.
C16_Witness ==
    /\ world_size = 2
    /\ nfiles = 2
    /\ \A w \in Ranks : rank_pc[w] = "done" /\ entered[w] = 2

\* Rank w is past the barrier of its first batch.
StartupPassed(w) ==
    /\ w \in Ranks
    /\ \/ rank_file[w] > 1
       \/ rank_pc[w] \in {"rows", "ckpt"}

(* C17, as stated: once a worker is past the startup barrier it eventually
   finishes all batches, unless it is itself the one that dies or stalls:
   whatever the other workers do, a crash or a stall in the middle of a batch
   included. *)
C17_FinishesAllBatches ==
    \A w \in 0..(MaxRanks - 1) :
        StartupPassed(w) ~> (w \in Ranks /\ rank_pc[w] \in {"done", "halted"})

\* Rank w is in the row loop of a batch, past that batch's barrier.
InRowLoop(w) == w \in Ranks /\ rank_pc[w] \in {"rows", "ckpt"}

(* C17, amended: once a worker is past the barrier of a batch it eventually
   finishes that batch, unless it is itself the one that dies or stalls,
   whatever the other workers do: it never stays in the row loop of a batch
   for good.  It starts on the rows of the next batch only after every
   worker has called that batch's barrier. *)
C17_FinishesBatchInHand ==
    \A w \in 0..(MaxRanks - 1) : []<>(~InRowLoop(w))

\* Rank 1 halted in the middle of the first batch; rank 0 finished that
\* batch and waits in the barrier of the second.
C17_Witness ==
    /\ world_size = 2
    /\ nfiles = 2
    /\ rank_pc[1] = "halted" /\ rank_file[1] = 1 /\ entered[1] = 1
    /\ rank_pc[0] = "waiting" /\ rank_file[0] = 2
    /\ Written(ckpt_path(1, 0), 0) \in disk

(* C18: directories before writes: in every interleaving of the workers, no
   worker has written an OutputFile or a checkpoint file unless worker 0 had
   created the output directory and its checkpoints subdirectory first. *)
C18_DirectoriesBeforeWrites ==
    [][disk' # disk => dirs_made]_vars

\* Rank 1 has written its parquet file of the first batch, after rank 0
\* made the directories; rank 0 itself has written nothing yet.
C18_Witness ==
    /\ world_size = 2
    /\ dirs_made
    /\ Written(out_path(1, 1), 1) \in disk
    /\ \A e \in disk : e.writer = 1
    /\ rank_pc[0] \in {"waiting", "rows"}

(* C19: exclusive ownership: every file written under the output directory
   was written by one worker index only, the one in its name; no file has
   two distinct writers. *)
C19_ExclusiveOwnership ==
    /\ \A e \in disk : e.writer = e.path.rank
    /\ \A d, e \in disk : d.path = e.path => d.writer = e.writer

\* Two ranks have each written a parquet file and a checkpoint file of the
\* same batch: four files, each with its own writer.
C19_Witness ==
    /\ world_size = 2
    /\ \A w \in Ranks :
           /\ Written(out_path(1, w), w) \in disk
           /\ Written(ckpt_path(1, w), w) \in disk
    /\ \E w \in Ranks : rank_pc[w] = "rows" /\ rank_file[w] = 1

(* C20: exactly once per run: when an uninterrupted run of a worker over a
   batch that started with no checkpoint and no OutputFile has ended, every
   row for which inference returned text is in the OutputFile of that worker
   exactly once, the file holds nothing else, every row in it is one the
   worker owns (so that no other worker's file holds it), and every buffered
   record has been persisted. *)
C20_ExactlyOncePerRun ==
    (pc = "done" /\ runs = 1) =>
        /\ Range(RowsOf(out_file.rows)) = returned
        /\ NoRepeats(RowsOf(out_file.rows))
        /\ \A r \in returned : r % world_size = world_rank
        /\ \A g \in Ranks \ {world_rank} :
               returned \cap Range(AssignedRows(g, world_size, total_rows, 0)) = {}
        /\ \A i \in 1..Len(buffer) : buffer[i] \in Range(out_file.rows)

\* Rank 1 of 3 has ended its first run on a batch of 7 rows: inference
\* raised for row 1 and returned text for row 4, and the file holds row 4.
C20_Witness ==
    /\ pc = "done" /\ runs = 1
    /\ world_size = 3 /\ world_rank = 1 /\ total_rows = 7
    /\ visited = {1, 4}
    /\ returned = {4}
    /\ RowsOf(out_file.rows) = <<4>>
    /\ buffer # <<>>

Ascending(seq) == \A i \in 1..(Len(seq) - 1) : seq[i] < seq[i + 1]

\* The buffer has been written to the OutputFile and not been cleared yet.
BufferFlushed == pc \in {"ckpt", "final_ckpt", "done"}

\* The records this invocation has added to the OutputFile so far: its last
\* count records, less those still waiting in the buffer.
AddedThisRun ==
    LET k == IF BufferFlushed THEN count ELSE count - Len(buffer)
        n == Len(out_file.rows)
    IN  SubSeq(out_file.rows, n - k + 1, n)

\* The rows of the records this invocation has produced, in the order in
\* which they reach the OutputFile.
RowsProducedThisRun ==
    RowsOf(AddedThisRun) \o (IF BufferFlushed THEN <<>> ELSE RowsOf(buffer))

(* C21: within one worker and one run the rows of the batch are attempted
   in strictly ascending row-index order (each row the loop reaches is
   larger than every row it reached before), and the records the run adds to
   the OutputFile are in that same ascending order. *)
C21_AscendingOrder ==
    [][runs' = runs =>
          /\ \A r \in visited' \ visited : \A v \in visited : v < r
          /\ Ascending(RowsProducedThisRun)'
          /\ Range(RowsProducedThisRun)' \subseteq visited']_vars

\* In its second run rank 0 of 3 has added row 3 after the rows 0 and 3 of
\* the first run: the file as a whole is not ascending, this run's part is.
C21_Witness ==
    /\ runs = 2
    /\ pc = "done"
    /\ RowsOf(out_file.rows) = <<0, 3, 3>>
    /\ RowsOf(AddedThisRun) = <<3>>

\* A flush is about to run with records in the buffer: a threshold flush, or
\* the end-of-batch flush.
FlushWithRecords ==
    /\ buffer # <<>>
    /\ \/ pc = "flush"
       \/ pc = "loop" /\ idx > Len(my_rows)
    /\ runs' = runs

(* C22: a flush merges without loss: a flush with a non-empty buffer leaves
   the OutputFile equal to its previous contents followed by the buffered
   records in buffer order; the file changes in no other way, and no step of
   this run or of a run after a restart removes, alters or reorders a record
   the file already holds. *)
C22_FlushMergesWithoutLoss ==
    [][/\ FlushWithRecords => out_file'.rows = out_file.rows \o buffer
       /\ out_file' # out_file => out_file'.rows = out_file.rows \o buffer
       /\ SubSeq(out_file'.rows, 1, Len(out_file.rows)) = out_file.rows]_vars

\* With threshold 1 the second threshold flush of a run has put its record
\* behind the record of the first.
C22_Witness ==
    /\ pc = "ckpt"
    /\ flush_every = 1
    /\ count = 2
    /\ Len(out_file.rows) = 2
    /\ buffer = <<out_file.rows[2]>>
    /\ out_file.rows[1].global_row < out_file.rows[2].global_row

(* C23: a world-size mismatch is not detected: a worker started on a batch
   after a launch with another world size takes the stored offset as it is,
   without error, and computes its rows from it with the new world size. *)
C23_MismatchAccepted ==
    [][(pc = "start" /\ prev_size # world_size) =>
          /\ pc' = "loop"
          /\ start_offset' = ReadCkpt(ckpt_file)
          /\ my_rows' = PyRange(world_rank + ReadCkpt(ckpt_file) * world_size,
                                total_rows, world_size)]_vars

\* A job of one rank recorded rows 0 and 1 of a batch of 3 rows and stored
\* offset 2; launched again with two ranks, rank 0 resumes from offset 2 and
\* skips row 2, which it owns now and which no rank ever attempted.
C23_Witness ==
    /\ pc = "loop"
    /\ prev_size = 1 /\ world_size = 2 /\ world_rank = 0 /\ total_rows = 3
    /\ start_offset = 2
    /\ my_rows = <<>>
    /\ attempted = {0, 1}
    /\ 2 % world_size = world_rank /\ 2 \notin attempted

\* The batches rank w has finished: those whose last checkpoint it wrote.
BatchesDone(w) ==
    { e.path.stem : e \in { d \in disk : d.writer = w /\ d.path.dir = "checkpoints" } }

(* C24: every worker visits the batches in the same order: whatever order
   the directory listing came in, all workers hold the same list of batch
   files, the parquet files of the directory sorted ascending by path, and
   each worker works through it from the front, one batch at a time: the
   batches it has finished are the first rank_file - 1 of the list. *)
C24_SameBatchOrder ==
    \A w \in Ranks :
        /\ load_parquets(listing[w]) = [i \in 1..nfiles |-> ParquetFile(i)]
        /\ \A v \in Ranks : load_parquets(listing[v]) = load_parquets(listing[w])
        /\ BatchesDone(w) = 1..(rank_file[w] - 1)
        /\ rank_pc[w] = "done" <=> rank_file[w] = nfiles + 1

\* Two ranks got the two parquet files in opposite orders; both are on the
\* second batch and have finished the first.
C24_Witness ==
    /\ world_size = 2
    /\ nfiles = 2
    /\ listing[0] = <<ParquetFile(1), ParquetFile(2)>>
    /\ listing[1] = <<ParquetFile(2), ParquetFile(1)>>
    /\ \A w \in Ranks : rank_pc[w] = "rows" /\ rank_file[w] = 2 /\ BatchesDone(w) = {1}

(* C25: completed batches stay completed: once an invocation of the worker
   has run the batch to its end, no step of any later invocation on that
   batch makes an inference call, adds a record to the OutputFile or changes
   the value of the checkpoint. *)
C25_CompletedStaysCompleted ==
    [][(completed /\ runs' = runs) =>
          /\ pc' # "handle"
          /\ out_file' = out_file
          /\ ReadCkpt(ckpt_file') = ReadCkpt(ckpt_file)]_vars

(* C26: shard membership of outputs: in every reachable state every record
   in the OutputFile of worker g, and every record in its buffer, has a row
   index i with 0 <= i < N and i mod W = g: the worker never records a row
   owned by another worker. *)
C26_ShardMembership ==
    \A r \in Range(RowsOf(out_file.rows)) \cup Range(RowsOf(buffer)) :
        /\ 0 <= r /\ r < total_rows
        /\ r % world_size = world_rank

\* Rank 2 of 3 has rows 2 and 5 of a batch of 7 rows in its file.
C26_Witness ==
    /\ world_size = 3 /\ world_rank = 2 /\ total_rows = 7
    /\ RowsOf(out_file.rows) = <<2, 5>>
    /\ pc = "done"

(* C27: buffer bound: at the end of every loop iteration the buffer holds
   exactly count mod flush_every records, hence fewer than flush_every, and
   so none right after a threshold flush; and when a run has completed,
   every record it buffered is in the OutputFile. *)
C27_BufferBound ==
    /\ pc = "loop" =>
           /\ Len(buffer) = count % flush_every
           /\ Len(buffer) < flush_every
    /\ pc = "done" =>
           /\ returned \subseteq Range(RowsOf(out_file.rows))
           /\ Range(buffer) \subseteq Range(out_file.rows)
           /\ Len(AddedThisRun) = count

\* Threshold 2: the second record of the run has just been flushed and the
\* loop goes on with an empty buffer.
C27_Witness ==
    /\ pc = "loop"
    /\ flush_every = 2
    /\ count = 2
    /\ buffer = <<>>
    /\ Len(out_file.rows) = 2
    /\ idx = 3

(* C28: skipped rows do not count as progress: a row with an over-long
   prompt causes no inference call and no record, neither such a row nor a
   row whose inference raised increments the flush counter, and the value a
   threshold flush writes is the number of records buffered so far in the
   run divided by flush_every, which is at most the number of rows visited
   so far divided by flush_every. *)
C28_SkippedRowsNoProgress ==
    [][runs' = runs =>
          /\ (pc = "loop" /\ idx <= Len(my_rows) /\ my_rows[idx] \in long_rows) =>
                 (pc' # "handle" /\ buffer' = buffer /\ count' = count
                    /\ returned' = returned)
          /\ (pc = "handle" /\ reply.outcome = "raised") =>
                 (buffer' = buffer /\ count' = count)
          /\ count' = Cardinality(returned') - (IF pc' = "handle" /\ reply'.outcome = "returned" THEN 1 ELSE 0)
          /\ pc = "ckpt" =>
                 /\ ReadCkpt(ckpt_file') = Cardinality(returned) \div flush_every
                 /\ ReadCkpt(ckpt_file') <= Cardinality(visited) \div flush_every]_vars

\* Threshold 1: row 0 was skipped for its prompt, row 1 was recorded, and
\* the threshold flush stored 1 after two rows visited.
C28_Witness ==
    /\ runs = 1
    /\ flush_every = 1
    /\ long_rows = {0}
    /\ visited = {0, 1}
    /\ returned = {1}
    /\ pc = "loop"
    /\ ckpt_file.exists
    /\ ReadCkpt(ckpt_file) = 1
    /\ ReadCkpt(ckpt_file) < Cardinality(visited) \div flush_every

(* C29: checkpoint range: every checkpoint the worker has written for the
   batch holds an integer k with 0 <= k <= the number of rows of the batch
   the worker owns, so that a resume from it starts at no negative row index
   and reaches no row index outside the batch. *)
C29_CheckpointRange ==
    /\ ckpt_file.exists =>
           /\ ckpt_file.text.kind = "object"
           /\ ckpt_file.text.value.type = "int"
           /\ 0 <= ckpt_file.text.value.num
           /\ ckpt_file.text.value.num <= Cardinality({i \in 0..(total_rows - 1) :
                                                          i % world_size = world_rank})
    /\ pc # "start" =>
           /\ 0 <= world_rank + start_offset * world_size
           /\ \A r \in Range(my_rows) : 0 <= r /\ r < total_rows

\* Rank 1 of 3 has completed a batch of 7 rows: the checkpoint holds 2, the
\* number of rows it owns (1 and 4).
C29_Witness ==
    /\ world_size = 3 /\ world_rank = 1 /\ total_rows = 7
    /\ pc = "done"
    /\ runs = 1
    /\ ckpt_file.exists
    /\ ckpt_file.text.value.num = 2

\* C30: run on the same batch with the same worker coordinates, starting
\* checkpoint, flush threshold and per-row inference outcomes, and with no
\* over-long prompt, the legacy script can take a step for every step of
\* the HTTP worker, and after it its output file and its checkpoint file
\* hold what the worker's hold: the two write the same sequence of output
\* file contents and of checkpoint values.
C30_SameFilesAndCheckpoints ==
    /\ InSync => (legacy.out_file = out_file /\ legacy.ckpt_file = ckpt_file)
    /\ ~InSync => ENABLED legacy_Next

\* Both variants resumed from a checkpoint, flushed and finished the batch.
C30_Witness ==
    /\ InSync
    /\ legacy.runs = 2
    /\ legacy.pc = "done"
    /\ legacy.start_offset > 0
    /\ Len(legacy.out_file.rows) >= 2
    /\ legacy.ckpt_file.exists
    /\ legacy.out_file = out_file
    /\ legacy.ckpt_file = ckpt_file

====
